---- MODULE Spec2Model ----
(***************************************************************************)
(* Model of the attendance API of src/app.py: the two authorization        *)
(* decorators (token_required, admin_required) and the eight routes.       *)
(*                                                                         *)
(* Each request runs on a thread of its own and the threads interleave.    *)
(* Every action of a thread is the code                                    *)
(* that runs between two calls to an external collaborator                 *)
(* (firebase_service, supabase_service, face_service): "f" issues the      *)
(* first call of handler f, "f_<step>" receives what the call returned (or *)
(* raised) and runs on to the next call or to the response.                *)
(*                                                                         *)
(* Python values: None of a string-typed value is the string "None"; a     *)
(* dict is a function on its keys ({} is <<>>); a value that is a dict or  *)
(* None is wrapped: <<>> is None and <<d>> is the dict d.                  *)
(***************************************************************************)
EXTENDS Integers, Sequences, FiniteSets, TLC

\* ---------------------------------------------------------------- bounds
MaxHdrLen == 3      \* longest Authorization header, in header atoms
MaxServed == 2      \* requests a run serves
MaxThreads == 2     \* requests the server handles at the same time

\* ------------------------------------------------------- program constants
Threshold == 60     \* the confidence threshold of mark_attendance

\* ------------------------------------------------------------ input sets
AllWorkers == 1..MaxThreads
Users == {"u1", "u2"}
None == "None"
\* An Authorization header is the concatenation of a sequence of atoms:
\* the word Bearer, one space, and a space-free word of other characters.
HdrAtoms == {"Bearer", " ", "t1"}
Headers == UNION {[1..n -> HdrAtoms] : n \in 0..MaxHdrLen}
\* request.headers: without an Authorization header, or with one
HeaderInputs ==
    {[hasAuth |-> FALSE, auth |-> <<>>]}
        \cup {[hasAuth |-> TRUE, auth |-> h] : h \in Headers}
PublicRoutes == {"home", "health_check"}
TokenRoutes == {"upload_face", "compare_faces", "mark_attendance"}
AdminRoutes == {"get_attendance_records", "get_users", "get_system_stats"}
Routes == PublicRoutes \cup TokenRoutes \cup AdminRoutes
Images == {"", "imgA"}
Encodings == {"e1", "e2"}
Confidences == {0, Threshold - 1, Threshold, Threshold + 1, 100}
Timestamps == {"2024-01-01T09:00:00Z"}
DateArgs == {"", "2024-01-01T00:00:00Z", "2024-01-02T00:00:00", "yesterday"}
IsoDates == {"2024-01-01T00:00:00+00:00", "2024-01-02T00:00:00"}

\* ------------------------------------------------------- Python helpers
\* truth value of a string-typed value (None and '' are falsy)
Truthy(s) == s \notin {None, ""}
\* dict.get(key, default)
Get(d, k, def) == IF k \in DOMAIN d THEN d[k] ELSE def
\* an optional key of a JSON object: absent, or present with one of vals
Opt(k, vals) == {<<>>} \cup {(k :> v) : v \in vals}
\* str(e) of the exception a failing call raises
ExcText(fn) == <<"exception", fn>>
\* the error response body shared by all routes
ErrBody(msg) == [success |-> FALSE, error |-> msg]
\* what an external call gives back: a value, or an exception
Returned(v) == [raised |-> FALSE, val |-> v]
Raised == [raised |-> TRUE, val |-> <<>>]

\* str.startswith('Bearer ')
StartsWithBearer(h) == Len(h) >= 2 /\ h[1] = "Bearer" /\ h[2] = " "
\* str.split(' '): the pieces between single spaces
RECURSIVE SplitSpace(_)
SplitSpace(h) ==
    IF \A i \in 1..Len(h) : h[i] # " " THEN <<h>>
    ELSE LET i == CHOOSE j \in 1..Len(h) :
                    h[j] = " " /\ \A k \in 1..(j - 1) : h[k] # " "
         IN <<SubSeq(h, 1, i - 1)>> \o SplitSpace(SubSeq(h, i + 1, Len(h)))
\* mutant of BearerToken: the 'Bearer ' prefix is not checked
BearerTokenAnyScheme(r) ==
    IF r.hasAuth /\ Len(SplitSpace(r.auth)) >= 2 THEN SplitSpace(r.auth)[2]
    ELSE <<>>
\* the token both decorators take from the request headers; None and ''
\* are both the empty sequence (only `not token` looks at it)
BearerToken(r) ==
    IF r.hasAuth /\ StartsWithBearer(r.auth) THEN SplitSpace(r.auth)[2]
    ELSE <<>>
\* `if not decoded_token`
TokenRejected(decoded) == decoded = <<>> \/ DOMAIN decoded[1] = {}
\* mutant of NotAdmin: a missing user record is let through
NotAdminUnlessMissing(user_data) ==
    /\ user_data # <<>>
    /\ Get(user_data[1], "role", None) # "admin"
\* `if not user_data or user_data.get('role') != 'admin'`
NotAdmin(user_data) ==
    \/ user_data = <<>>
    \/ DOMAIN user_data[1] = {}
    \/ Get(user_data[1], "role", None) # "admin"
\* mutant of BelowThreshold: the threshold is off by one
BelowThresholdOffByOne(c) == c < Threshold - 1
\* `if confidence < 60`
BelowThreshold(c) == c < Threshold

\* ------------------------------------------- what the collaborators give
Email(u) == <<u, "@example.org">>
DecodedTokens ==
    {("uid" :> u) @@ ("email" :> Email(u)) : u \in Users}
        \cup {("uid" :> u) : u \in Users}
VerifyOutcomes ==
    {Raised, Returned(<<>>)} \cup {Returned(<<d>>) : d \in DecodedTokens}
UserRecords == {("role" :> "admin"), ("role" :> "user"), ("name" :> "n")}
UserDataOutcomes ==
    {Raised, Returned(<<>>)} \cup {Returned(<<d>>) : d \in UserRecords}
\* face_service.validate_face_quality: (is_valid, quality_message)
ValidateOutcomes ==
    {Raised, Returned(<<TRUE, "Face quality is good">>),
     Returned(<<FALSE, "Image too blurry">>)}
\* face_service.encode_face_from_base64: (encoding, message)
EncodeOutcomes ==
    {Raised, Returned(<<None, "No face detected">>)}
        \cup {Returned(<<e, "Face encoded">>) : e \in Encodings}
\* face_service.compare_faces: the comparison result
CompareOutcomes ==
    {Raised, Returned([is_match |-> TRUE, confidence |-> 100]),
     Returned([is_match |-> FALSE, confidence |-> 0])}
\* a storage write: True, False, or an exception
WriteOutcomes == {Raised, Returned(TRUE), Returned(FALSE)}
\* firebase_service.upload_image: the address of the image, or None
ImageUrl == "https://storage.example/face.jpg"
\* firebase_service.save_face_encoding, when it succeeds: a reference
\* encoding replaces the subject's reference, any other is added
SavedReference(ref, user_id, encoding, is_reference) ==
    IF is_reference THEN [ref EXCEPT ![user_id] = encoding] ELSE ref
SavedCaptured(cap, user_id, encoding, is_reference) ==
    IF is_reference THEN cap ELSE cap \cup {<<user_id, encoding>>}
\* firebase_service.mark_attendance, when it succeeds
AttendanceRecord(user_id, confidence, timestamp) ==
    [user_id |-> user_id, confidence |-> confidence,
     timestamp |-> timestamp, status |-> "present"]

\* ------------------------------------------------------- request bodies
NoJson == [json |-> FALSE, data |-> <<>>]
Json(d) == [json |-> TRUE, data |-> d]
UploadBodies ==
    {NoJson} \cup
    {Json(i @@ u @@ r) : i \in Opt("image_data", Images),
                         u \in Opt("user_id", Users),
                         r \in Opt("is_reference", BOOLEAN)}
CompareBodies ==
    {NoJson} \cup
    {Json(i @@ u) : i \in Opt("captured_image", Images),
                    u \in Opt("user_id", Users)}
MarkBodies ==
    {NoJson} \cup
    {Json(c @@ u @@ t) : c \in Opt("confidence", Confidences),
                         u \in Opt("user_id", Users),
                         t \in Opt("timestamp", Timestamps)}
RecordArgs ==
    {Json(s @@ e) : s \in Opt("start_date", DateArgs),
                    e \in Opt("end_date", DateArgs)}

\* ------------------------------------------------------------------ state
VARIABLE threads      \* the worker threads of the server
VARIABLE served       \* requests answered so far
VARIABLE pc           \* per worker: where its request is
VARIABLE route        \* per worker: the route of its request
VARIABLE ident        \* per worker: request.user_id / request.user_email
VARIABLE data         \* per worker: request.get_json() / request.args
VARIABLE loc          \* per worker: the local variables of the running function
VARIABLE calls        \* per worker: the external calls of its request, in order
VARIABLE rets         \* per worker: how each of those calls ended
VARIABLE resp         \* per worker: the response
VARIABLE refEnc       \* store: the reference encoding of each subject
VARIABLE captured     \* store: the non-reference encodings
VARIABLE attendance   \* store: the attendance records

vars == <<threads, served, pc, route, ident, data, loc, calls, rets, resp,
          refEnc, captured, attendance>>
store == <<refEnc, captured, attendance>>

NoBody == NoJson
NoResp == [status |-> 0, body |-> <<>>]

\* The server runs each request on a thread of its own and the module takes
\* no lock, so the requests of different threads interleave at every call
\* of a collaborator.
Init ==
    /\ threads = AllWorkers
    /\ served = 0
    /\ pc = [w \in AllWorkers |-> "idle"]
    /\ route = [w \in AllWorkers |-> None]
    /\ ident = [w \in AllWorkers |-> <<>>]
    /\ data = [w \in AllWorkers |-> NoBody]
    /\ loc = [w \in AllWorkers |-> <<>>]
    /\ calls = [w \in AllWorkers |-> <<>>]
    /\ rets = [w \in AllWorkers |-> <<>>]
    /\ resp = [w \in AllWorkers |-> NoResp]
    /\ refEnc = [u \in Users |-> None]
    /\ captured = {}
    /\ attendance = {}

\* ---------------------------------------------------------- step helpers
\* mutant of SetIdentity: the identity is kept in one place that all
\* requests share
SetIdentityShared(w, d) == ident' = [x \in AllWorkers |-> d]
\* `request.user_id = ...; request.user_email = ...`: attributes of the
\* request object of the request being served
SetIdentity(w, d) == ident' = [ident EXCEPT ![w] = d]
Goto(w, l) == pc' = [pc EXCEPT ![w] = l]
Respond(w, status, body) ==
    /\ pc' = [pc EXCEPT ![w] = "done"]
    /\ resp' = [resp EXCEPT ![w] = [status |-> status, body |-> body]]
Call(w, fn, uid, l) ==
    /\ calls' = [calls EXCEPT ![w] = Append(@, [fn |-> fn, uid |-> uid])]
    /\ pc' = [pc EXCEPT ![w] = l]
Ret(w, out) == rets' = [rets EXCEPT ![w] = Append(@, out)]
Bind(w, d) == loc' = [loc EXCEPT ![w] = d @@ @]
\* -------------------------------------------------------------- dispatch
\* Flask hands a request to the view function of its route; the decorated
\* views start in their decorator.
Entry(r) ==
    IF r \in TokenRoutes THEN "token_required"
    ELSE IF r \in AdminRoutes THEN "admin_required"
    ELSE r
Receive(w) ==
    /\ w \in threads
    /\ pc[w] = "idle"
    /\ served + Cardinality({x \in AllWorkers : pc[x] # "idle"}) < MaxServed
    /\ \E r \in Routes :
        /\ route' = [route EXCEPT ![w] = r]
        /\ Goto(w, Entry(r))
    /\ UNCHANGED <<threads, served, ident, data, loc, calls, rets, resp,
                   store>>

\* the response leaves and the request context is torn down; the worker is
\* free again
Finish(w) ==
    /\ pc[w] = "done"
    /\ Goto(w, "idle")
    /\ served' = served + 1
    /\ route' = [route EXCEPT ![w] = None]
    /\ ident' = [ident EXCEPT ![w] = <<>>]
    /\ data' = [data EXCEPT ![w] = NoBody]
    /\ loc' = [loc EXCEPT ![w] = <<>>]
    /\ calls' = [calls EXCEPT ![w] = <<>>]
    /\ rets' = [rets EXCEPT ![w] = <<>>]
    /\ resp' = [resp EXCEPT ![w] = NoResp]
    /\ UNCHANGED <<threads, store>>

\* the wrapped view f gets a frame of its own
EnterView(w) ==
    /\ Goto(w, route[w])
    /\ loc' = [loc EXCEPT ![w] = <<>>]

\* ------------------------------------------------------ token_required
token_required(w) ==
    /\ pc[w] = "token_required"
    /\ \E headers \in HeaderInputs :
        LET token == BearerToken(headers) IN
        /\ Bind(w, ("headers" :> headers) @@ ("token" :> token))
        /\ IF token = <<>>
           THEN /\ Respond(w, 401, ErrBody("Token is missing"))
                /\ UNCHANGED calls
           ELSE /\ Call(w, "verify_token", None, "tr_verify")
                /\ UNCHANGED resp
    /\ UNCHANGED <<threads, served, route, ident, data, rets, store>>

\* mutant of token_required_verify: a token that fails verification is not
\* turned away, the view runs without an identity
token_required_verify_unchecked(w) ==
    /\ pc[w] = "tr_verify"
    /\ \E out \in VerifyOutcomes :
        /\ Ret(w, out)
        /\ ident' = [ident EXCEPT ![w] =
               IF out.raised \/ TokenRejected(out.val)
               THEN ("user_id" :> None) @@ ("user_email" :> None)
               ELSE ("user_id" :> out.val[1]["uid"])
                    @@ ("user_email" :> Get(out.val[1], "email", None))]
        /\ EnterView(w)
    /\ UNCHANGED <<threads, served, route, data, calls, resp, store>>

token_required_verify(w) ==
    /\ pc[w] = "tr_verify"
    /\ \E out \in VerifyOutcomes :
        /\ Ret(w, out)
        /\ IF out.raised
           THEN /\ Respond(w, 401, ErrBody(ExcText("verify_token")))
                /\ UNCHANGED <<ident, loc>>
           ELSE IF TokenRejected(out.val)
           THEN /\ Respond(w, 401, ErrBody("Invalid token"))
                /\ UNCHANGED <<ident, loc>>
           ELSE IF "email" \notin DOMAIN out.val[1]
           THEN \* decoded_token['email'] raises KeyError
                /\ Respond(w, 401, ErrBody(ExcText("KeyError")))
                /\ SetIdentity(w, ("user_id" :> out.val[1]["uid"]))
                /\ UNCHANGED loc
           ELSE /\ SetIdentity(w, ("user_id" :> out.val[1]["uid"])
                                  @@ ("user_email" :> out.val[1]["email"]))
                /\ EnterView(w)
                /\ UNCHANGED resp
    /\ UNCHANGED <<threads, served, route, data, calls, store>>

\* ------------------------------------------------------ admin_required
admin_required(w) ==
    /\ pc[w] = "admin_required"
    /\ \E headers \in HeaderInputs :
        LET token == BearerToken(headers) IN
        /\ Bind(w, ("headers" :> headers) @@ ("token" :> token))
        /\ IF token = <<>>
           THEN /\ Respond(w, 401, ErrBody("Token is missing"))
                /\ UNCHANGED calls
           ELSE /\ Call(w, "verify_token", None, "ar_verify")
                /\ UNCHANGED resp
    /\ UNCHANGED <<threads, served, route, ident, data, rets, store>>

admin_required_verify(w) ==
    /\ pc[w] = "ar_verify"
    /\ \E out \in VerifyOutcomes :
        /\ Ret(w, out)
        /\ IF out.raised
           THEN /\ Respond(w, 401, ErrBody(ExcText("verify_token")))
                /\ UNCHANGED <<calls, loc>>
           ELSE IF TokenRejected(out.val)
           THEN /\ Respond(w, 401, ErrBody("Invalid token"))
                /\ UNCHANGED <<calls, loc>>
           ELSE /\ Call(w, "get_user_data", out.val[1]["uid"], "ar_lookup")
                /\ Bind(w, "decoded_token" :> out.val[1])
                /\ UNCHANGED resp
    /\ UNCHANGED <<threads, served, route, ident, data, store>>

admin_required_lookup(w) ==
    /\ pc[w] = "ar_lookup"
    /\ \E out \in UserDataOutcomes :
        /\ Ret(w, out)
        /\ LET decoded == loc[w]["decoded_token"] IN
           IF out.raised
           THEN /\ Respond(w, 401, ErrBody(ExcText("get_user_data")))
                /\ UNCHANGED <<ident, loc>>
           ELSE IF NotAdmin(out.val)
           THEN /\ Respond(w, 403, ErrBody("Admin access required"))
                /\ UNCHANGED <<ident, loc>>
           ELSE IF "email" \notin DOMAIN decoded
           THEN /\ Respond(w, 401, ErrBody(ExcText("KeyError")))
                /\ SetIdentity(w, ("user_id" :> decoded["uid"]))
                /\ UNCHANGED loc
           ELSE /\ SetIdentity(w, ("user_id" :> decoded["uid"])
                                  @@ ("user_email" :> decoded["email"]))
                /\ EnterView(w)
                /\ UNCHANGED resp
    /\ UNCHANGED <<threads, served, route, data, calls, store>>

\* ------------------------------------------------------- public routes
home(w) ==
    /\ pc[w] = "home"
    /\ Respond(w, 200, [message |-> "AI Attendance System API",
                        status |-> "running", version |-> "1.0.0"])
    /\ UNCHANGED <<threads, served, route, ident, data, loc, calls, rets, store>>

health_check(w) ==
    /\ pc[w] = "health_check"
    /\ Respond(w, 200, [status |-> "healthy", timestamp |-> "now",
                        services |-> [firebase |-> "connected",
                                      face_recognition |-> "initialized"]])
    /\ UNCHANGED <<threads, served, route, ident, data, loc, calls, rets, store>>

\* ------------------------------------------------ the subject of a request
\* mutant of SubjectOf: the identity of the token is not the default
SubjectBodyOnly(d, request_user_id) == Get(d, "user_id", None)
\* mutant of SubjectOf: a caller acts on their own subject only
SubjectSelfOnly(d, request_user_id) == request_user_id
\* `user_id = data.get('user_id', request.user_id)`
SubjectOf(d, request_user_id) == Get(d, "user_id", request_user_id)

\* mutant of IsReferenceOf: an upload is a reference unless it says otherwise
IsReferenceUnlessDenied(d) == Get(d, "is_reference", TRUE)
\* mutant of IsReferenceOf: every upload is saved as the reference
IsReferenceAlways(d) == TRUE
\* `is_reference = data.get('is_reference', False)`
IsReferenceOf(d) == Get(d, "is_reference", FALSE)

\* ------------------------------------------------------------ upload_face
upload_face(w) ==
    /\ pc[w] = "upload_face"
    /\ \E body \in UploadBodies :
        /\ data' = [data EXCEPT ![w] = body]
        /\ IF ~body.json
           THEN \* data is None: data.get raises
                /\ Respond(w, 500, ErrBody(ExcText("get_json")))
                /\ UNCHANGED <<calls, loc>>
           ELSE LET image_data == Get(body.data, "image_data", None)
                    user_id == SubjectOf(body.data, ident[w]["user_id"])
                    is_reference == IsReferenceOf(body.data)
                IN  /\ Bind(w, ("image_data" :> image_data)
                               @@ ("user_id" :> user_id)
                               @@ ("is_reference" :> is_reference))
                    /\ IF ~Truthy(image_data)
                       THEN /\ Respond(w, 400,
                                       ErrBody("No image data provided"))
                            /\ UNCHANGED calls
                       ELSE /\ Call(w, "validate_face_quality", None,
                                    "uf_validate")
                            /\ UNCHANGED resp
    /\ UNCHANGED <<threads, served, route, ident, rets, store>>

\* mutant of QualityRejected: the result of the quality check is ignored
QualityRejectedNever(is_valid) == FALSE
\* `if not is_valid`
QualityRejected(is_valid) == ~is_valid
\* the error text of a failed quality check
QualityError(quality_message) ==
    <<"Face quality check failed: ", quality_message>>

upload_face_validate(w) ==
    /\ pc[w] = "uf_validate"
    /\ \E out \in ValidateOutcomes :
        /\ Ret(w, out)
        /\ IF out.raised
           THEN /\ Respond(w, 500,
                           ErrBody(ExcText("validate_face_quality")))
                /\ UNCHANGED calls
           ELSE IF QualityRejected(out.val[1])
           THEN /\ Respond(w, 400, ErrBody(QualityError(out.val[2])))
                /\ UNCHANGED calls
           ELSE /\ Call(w, "encode_face_from_base64", None, "uf_encode")
                /\ UNCHANGED resp
    /\ UNCHANGED <<threads, served, route, ident, data, loc, store>>

upload_face_encode(w) ==
    /\ pc[w] = "uf_encode"
    /\ \E out \in EncodeOutcomes :
        /\ Ret(w, out)
        /\ IF out.raised
           THEN /\ Respond(w, 500,
                           ErrBody(ExcText("encode_face_from_base64")))
                /\ UNCHANGED <<calls, loc>>
           ELSE IF ~Truthy(out.val[1])
           THEN /\ Respond(w, 400, ErrBody(out.val[2]))
                /\ UNCHANGED <<calls, loc>>
           ELSE /\ Bind(w, "encoding" :> out.val[1])
                /\ Call(w, "save_face_encoding", loc[w]["user_id"],
                        "uf_save")
                /\ UNCHANGED resp
    /\ UNCHANGED <<threads, served, route, ident, data, store>>

upload_face_save(w) ==
    /\ pc[w] = "uf_save"
    /\ \E out \in WriteOutcomes :
        /\ Ret(w, out)
        /\ IF out.raised
           THEN /\ Respond(w, 500, ErrBody(ExcText("save_face_encoding")))
                /\ UNCHANGED <<calls, refEnc, captured>>
           ELSE IF out.val
           THEN /\ refEnc' = SavedReference(refEnc, loc[w]["user_id"],
                                 loc[w]["encoding"], loc[w]["is_reference"])
                /\ captured' = SavedCaptured(captured, loc[w]["user_id"],
                                 loc[w]["encoding"], loc[w]["is_reference"])
                /\ Call(w, "upload_image", loc[w]["user_id"], "uf_upload")
                /\ UNCHANGED resp
           ELSE /\ Respond(w, 500, ErrBody("Failed to save face encoding"))
                /\ UNCHANGED <<calls, refEnc, captured>>
    /\ UNCHANGED <<threads, served, route, ident, data, loc, attendance>>

\* the body of the response that ends a successful upload
UploadedBody(image_url) ==
    [success |-> TRUE, message |-> "Face uploaded successfully",
     encoding_saved |-> TRUE, image_url |-> image_url]

upload_face_upload(w) ==
    /\ pc[w] = "uf_upload"
    /\ \E out \in {Raised, Returned(None), Returned(ImageUrl)} :
        /\ Ret(w, out)
        /\ IF out.raised
           THEN Respond(w, 500, ErrBody(ExcText("upload_image")))
           ELSE Respond(w, 200, UploadedBody(out.val))
    /\ UNCHANGED <<threads, served, route, ident, data, loc, calls, store>>

\* ---------------------------------------------------------- compare_faces
compare_faces(w) ==
    /\ pc[w] = "compare_faces"
    /\ \E body \in CompareBodies :
        /\ data' = [data EXCEPT ![w] = body]
        /\ IF ~body.json
           THEN /\ Respond(w, 500, ErrBody(ExcText("get_json")))
                /\ UNCHANGED <<calls, loc>>
           ELSE LET user_id == SubjectOf(body.data, ident[w]["user_id"])
                    captured_image == Get(body.data, "captured_image", None)
                IN  /\ Bind(w, ("user_id" :> user_id)
                               @@ ("captured_image" :> captured_image))
                    /\ IF ~Truthy(captured_image)
                       THEN /\ Respond(w, 400,
                                   ErrBody("No captured image provided"))
                            /\ UNCHANGED calls
                       ELSE /\ Call(w, "get_face_encoding", user_id,
                                    "cf_reference")
                            /\ UNCHANGED resp
    /\ UNCHANGED <<threads, served, route, ident, rets, store>>

\* mutant of NoReference: a missing reference is not turned away
NoReferenceIgnored(reference_encoding) == FALSE
\* `if not reference_encoding`
NoReference(reference_encoding) == ~Truthy(reference_encoding)

compare_faces_reference(w) ==
    /\ pc[w] = "cf_reference"
    /\ \E out \in {Raised, Returned(refEnc[loc[w]["user_id"]])} :
        /\ Ret(w, out)
        /\ IF out.raised
           THEN /\ Respond(w, 500, ErrBody(ExcText("get_face_encoding")))
                /\ UNCHANGED <<calls, loc>>
           ELSE IF NoReference(out.val)
           THEN /\ Respond(w, 404, ErrBody("No reference face found"))
                /\ UNCHANGED <<calls, loc>>
           ELSE /\ Bind(w, "reference_encoding" :> out.val)
                /\ Call(w, "encode_face_from_base64", None, "cf_encode")
                /\ UNCHANGED resp
    /\ UNCHANGED <<threads, served, route, ident, data, store>>

compare_faces_encode(w) ==
    /\ pc[w] = "cf_encode"
    /\ \E out \in EncodeOutcomes :
        /\ Ret(w, out)
        /\ IF out.raised
           THEN /\ Respond(w, 500,
                           ErrBody(ExcText("encode_face_from_base64")))
                /\ UNCHANGED <<calls, loc>>
           ELSE IF ~Truthy(out.val[1])
           THEN /\ Respond(w, 400, ErrBody(out.val[2]))
                /\ UNCHANGED <<calls, loc>>
           ELSE /\ Bind(w, "captured_encoding" :> out.val[1])
                /\ Call(w, "compare_faces", None, "cf_compare")
                /\ UNCHANGED resp
    /\ UNCHANGED <<threads, served, route, ident, data, store>>

\* mutant of compare_faces_compare: the captured encoding is kept only
\* when the faces match
compare_faces_compare_match_only(w) ==
    /\ pc[w] = "cf_compare"
    /\ \E out \in CompareOutcomes :
        /\ Ret(w, out)
        /\ IF out.raised
           THEN /\ Respond(w, 500, ErrBody(ExcText("compare_faces")))
                /\ UNCHANGED <<calls, loc>>
           ELSE IF ~out.val.is_match
           THEN /\ Respond(w, 200, out.val)
                /\ Bind(w, "comparison_result" :> out.val)
                /\ UNCHANGED calls
           ELSE /\ Bind(w, "comparison_result" :> out.val)
                /\ Call(w, "save_face_encoding", loc[w]["user_id"],
                        "cf_save")
                /\ UNCHANGED resp
    /\ UNCHANGED <<threads, served, route, ident, data, store>>

compare_faces_compare(w) ==
    /\ pc[w] = "cf_compare"
    /\ \E out \in CompareOutcomes :
        /\ Ret(w, out)
        /\ IF out.raised
           THEN /\ Respond(w, 500, ErrBody(ExcText("compare_faces")))
                /\ UNCHANGED <<calls, loc>>
           ELSE /\ Bind(w, "comparison_result" :> out.val)
                /\ Call(w, "save_face_encoding", loc[w]["user_id"],
                        "cf_save")
                /\ UNCHANGED resp
    /\ UNCHANGED <<threads, served, route, ident, data, store>>

compare_faces_save(w) ==
    /\ pc[w] = "cf_save"
    /\ \E out \in WriteOutcomes :
        /\ Ret(w, out)
        /\ IF out.raised
           THEN /\ Respond(w, 500, ErrBody(ExcText("save_face_encoding")))
                /\ UNCHANGED captured
           ELSE /\ Respond(w, 200, loc[w]["comparison_result"])
                /\ captured' =
                     IF out.val
                     THEN SavedCaptured(captured, loc[w]["user_id"],
                                        loc[w]["captured_encoding"], FALSE)
                     ELSE captured
    /\ UNCHANGED <<threads, served, route, ident, data, loc, calls,
                   refEnc, attendance>>

\* -------------------------------------------------------- mark_attendance
\* mutant of mark_attendance: an attempt below the threshold is recorded,
\* with status 'rejected', before it is turned away
mark_attendance_records_rejected(w) ==
    /\ pc[w] = "mark_attendance"
    /\ \E body \in MarkBodies :
        /\ data' = [data EXCEPT ![w] = body]
        /\ IF ~body.json
           THEN /\ Respond(w, 500, ErrBody(ExcText("get_json")))
                /\ UNCHANGED <<calls, loc, attendance>>
           ELSE LET user_id == SubjectOf(body.data, ident[w]["user_id"])
                    confidence == Get(body.data, "confidence", 0)
                    timestamp == Get(body.data, "timestamp", None)
                IN  /\ Bind(w, ("user_id" :> user_id)
                               @@ ("confidence" :> confidence)
                               @@ ("timestamp" :> timestamp))
                    /\ IF BelowThreshold(confidence)
                       THEN /\ Respond(w, 400,
                                   [success |-> FALSE,
                                    error |-> "Face match confidence too low",
                                    confidence |-> confidence])
                            /\ calls' = [calls EXCEPT ![w] = Append(@,
                                   [fn |-> "mark_attendance",
                                    uid |-> user_id])]
                            /\ attendance' = attendance \cup
                                 {[AttendanceRecord(user_id, confidence,
                                                    timestamp)
                                     EXCEPT !.status = "rejected"]}
                       ELSE /\ Call(w, "mark_attendance", user_id, "ma_mark")
                            /\ UNCHANGED <<resp, attendance>>
    /\ UNCHANGED <<threads, served, route, ident, rets, refEnc, captured>>

mark_attendance(w) ==
    /\ pc[w] = "mark_attendance"
    /\ \E body \in MarkBodies :
        /\ data' = [data EXCEPT ![w] = body]
        /\ IF ~body.json
           THEN /\ Respond(w, 500, ErrBody(ExcText("get_json")))
                /\ UNCHANGED <<calls, loc>>
           ELSE LET user_id == SubjectOf(body.data, ident[w]["user_id"])
                    confidence == Get(body.data, "confidence", 0)
                    timestamp == Get(body.data, "timestamp", None)
                IN  /\ Bind(w, ("user_id" :> user_id)
                               @@ ("confidence" :> confidence)
                               @@ ("timestamp" :> timestamp))
                    /\ IF BelowThreshold(confidence)
                       THEN /\ Respond(w, 400,
                                   [success |-> FALSE,
                                    error |-> "Face match confidence too low",
                                    confidence |-> confidence])
                            /\ UNCHANGED calls
                       ELSE /\ Call(w, "mark_attendance", user_id, "ma_mark")
                            /\ UNCHANGED resp
    /\ UNCHANGED <<threads, served, route, ident, rets, store>>

\* mutant of mark_attendance_mark: a write that fails is issued once more
mark_attendance_mark_retry(w) ==
    /\ pc[w] = "ma_mark"
    /\ \E out \in WriteOutcomes :
        /\ Ret(w, out)
        /\ IF ~out.raised /\ out.val
           THEN /\ attendance' = attendance \cup
                     {AttendanceRecord(loc[w]["user_id"],
                          loc[w]["confidence"], loc[w]["timestamp"])}
                /\ Respond(w, 200,
                       [success |-> TRUE,
                        message |-> "Attendance marked successfully",
                        confidence |-> loc[w]["confidence"],
                        timestamp |-> loc[w]["timestamp"]])
                /\ UNCHANGED calls
           ELSE IF Len(calls[w]) < 3
           THEN /\ Call(w, "mark_attendance", loc[w]["user_id"], "ma_mark")
                /\ UNCHANGED <<attendance, resp>>
           ELSE /\ Respond(w, 500, ErrBody("Failed to mark attendance"))
                /\ UNCHANGED <<attendance, calls>>
    /\ UNCHANGED <<threads, served, route, ident, data, loc,
                   refEnc, captured>>

mark_attendance_mark(w) ==
    /\ pc[w] = "ma_mark"
    /\ \E out \in WriteOutcomes :
        /\ Ret(w, out)
        /\ IF out.raised
           THEN /\ Respond(w, 500, ErrBody(ExcText("mark_attendance")))
                /\ UNCHANGED attendance
           ELSE IF out.val
           THEN /\ attendance' = attendance \cup
                     {AttendanceRecord(loc[w]["user_id"],
                          loc[w]["confidence"], loc[w]["timestamp"])}
                /\ Respond(w, 200,
                       [success |-> TRUE,
                        message |-> "Attendance marked successfully",
                        confidence |-> loc[w]["confidence"],
                        timestamp |-> loc[w]["timestamp"]])
           ELSE /\ Respond(w, 500, ErrBody("Failed to mark attendance"))
                /\ UNCHANGED attendance
    /\ UNCHANGED <<threads, served, route, ident, data, loc, calls,
                   refEnc, captured>>

\* ------------------------------------------------- get_attendance_records
\* start_date.replace('Z', '+00:00')
ReplaceZ(s) ==
    IF s = "2024-01-01T00:00:00Z" THEN "2024-01-01T00:00:00+00:00" ELSE s
\* datetime.fromisoformat accepts the string
IsIso(s) == s \in IsoDates
\* a date filter that is given (a non-empty string) and does not parse
BadDate(s) == Truthy(s) /\ ~IsIso(ReplaceZ(s))
\* what the store lists: the records the filter selects
ListOutcomes == {Raised} \cup {Returned(rs) : rs \in SUBSET attendance}

get_attendance_records(w) ==
    /\ pc[w] = "get_attendance_records"
    /\ \E args \in RecordArgs :
        /\ data' = [data EXCEPT ![w] = args]
        /\ LET start_date == Get(args.data, "start_date", None)
               end_date == Get(args.data, "end_date", None)
           IN IF BadDate(start_date) \/ BadDate(end_date)
              THEN /\ Respond(w, 500, ErrBody(ExcText("fromisoformat")))
                   /\ UNCHANGED calls
              ELSE /\ Call(w, "get_attendance_records", None, "gr_records")
                   /\ UNCHANGED resp
    /\ UNCHANGED <<threads, served, route, ident, loc, rets, store>>

get_attendance_records_records(w) ==
    /\ pc[w] = "gr_records"
    /\ \E out \in ListOutcomes :
        /\ Ret(w, out)
        /\ IF out.raised
           THEN Respond(w, 500, ErrBody(ExcText("get_attendance_records")))
           ELSE Respond(w, 200, [success |-> TRUE, records |-> out.val,
                                 count |-> Cardinality(out.val)])
    /\ UNCHANGED <<threads, served, route, ident, data, loc, calls, store>>

\* -------------------------------------------------------------- get_users
\* the users the user store can list
Accounts == {"u1", "u2", "u3"}
UsersOutcomes == {Raised} \cup {Returned(us) : us \in SUBSET Accounts}

get_users(w) ==
    /\ pc[w] = "get_users"
    /\ Call(w, "get_all_users", None, "gu_users")
    /\ UNCHANGED <<threads, served, route, ident, data, loc, rets, resp, store>>

get_users_users(w) ==
    /\ pc[w] = "gu_users"
    /\ \E out \in UsersOutcomes :
        /\ Ret(w, out)
        /\ IF out.raised
           THEN Respond(w, 500, ErrBody(ExcText("get_all_users")))
           ELSE Respond(w, 200, [success |-> TRUE, users |-> out.val,
                                 count |-> Cardinality(out.val)])
    /\ UNCHANGED <<threads, served, route, ident, data, loc, calls, store>>

\* ------------------------------------------------------- get_system_stats
\* Python floats are IEEE doubles, with a significand of Prec bits.  The
\* division and the multiplication each round their exact result to Prec
\* bits, to nearest and a tie to even; round(x, 2) then rounds the exact
\* value of the float x to the nearest hundredth, a tie to even.
Prec == 53
\* a doubled until a >= b, and b doubled while a >= 2 * b: the quotient
\* a / b of the results lies in [1, 2) and is p / t but for a power of two
RECURSIVE ScaleUp(_, _)
ScaleUp(a, b) == IF a < b THEN ScaleUp(2 * a, b) ELSE a
RECURSIVE ScaleDown(_, _)
ScaleDown(a, b) == IF a >= 2 * b THEN ScaleDown(a, 2 * b) ELSE b
\* x * 2^n modulo m, eight bits at a time
RECURSIVE ShiftMod(_, _, _)
ShiftMod(x, n, m) ==
    IF n = 0
    THEN x
    ELSE LET k == IF n < 8 THEN n ELSE 8
         IN  ShiftMod((x * 2^k) % m, n - k, m)
\* round to nearest, a tie to even: 1 when the part dropped (rest out of
\* unit) rounds the part kept (of the given parity) up, else 0
RoundsUp(rest, unit, parity) ==
    IF 2 * rest > unit \/ (2 * rest = unit /\ parity = 1) THEN 1 ELSE 0
\* The float arithmetic of present_today / total_users * 100 where the exact
\* quotient lies half way between the hundredths q and q + 1, for counts
\* below 2^15.  With a / b the scaled quotient and N = a * 2^(Prec - 1):
\*   the division gives the significand M = N / b rounded, whose error
\*   rho = M * b - N and whose last eight bits follow from N modulo 256 * b;
\*   the product 100 * M has Prec + j bits, j = 6 or 7, and drops its last
\*   j bits D, rounding by delta;
\*   the float then differs from the half-way point by
\*   (delta * b + 100 * rho) / b units of its last place, and round() goes
\*   down or up by the sign of that difference.
FloatTie(p, t, q) ==
    LET a == ScaleUp(p, t)
        b == ScaleDown(a, t)
        m == 256 * b
        R == ShiftMod(a % m, Prec - 1, m)
        r == R % b
        Qlow == R \div b
        up == RoundsUp(r, b, Qlow % 2)
        rho == IF up = 1 THEN b - r ELSE 0 - r
        Mlow == (Qlow + up) % 256
        c == 25 * a - 32 * b
        j == IF c > 0 \/ (c = 0 /\ rho >= 0) THEN 7 ELSE 6
        P == 100 * Mlow
        D == P % 2^j
        upy == RoundsUp(D, 2^j, (P \div 2^j) % 2)
        delta == IF upy = 1 THEN 2^j - D ELSE 0 - D
        diff == delta * b + 100 * rho
    IN  IF diff < 0 THEN q
        ELSE IF diff > 0 THEN q + 1
        ELSE q + (q % 2)
\* round(present_today / total_users * 100, 2) for total_users > 0, in
\* hundredths of a percent.  The float is within a few units of its last
\* place of the exact quotient, so it rounds to the hundredth nearest to
\* the exact quotient unless that lies half way between two hundredths.
RoundedPercent(present_today, total_users) ==
    LET x == present_today * 10000
        q == x \div total_users
        r == x % total_users
    IN  IF 2 * r < total_users THEN q
        ELSE IF 2 * r > total_users THEN q + 1
        ELSE FloatTie(present_today, total_users, q)
\* mutant of AttendanceRate: with no users the rate is reported as full
AttendanceRateFullWhenEmpty(present_today, total_users) ==
    IF total_users > 0
    THEN RoundedPercent(present_today, total_users)
    ELSE 10000
\* `(present_today / total_users * 100) if total_users > 0 else 0`, then
\* round(attendance_rate, 2); in hundredths of a percent
AttendanceRate(present_today, total_users) ==
    IF total_users > 0
    THEN RoundedPercent(present_today, total_users)
    ELSE 0

get_system_stats(w) ==
    /\ pc[w] = "get_system_stats"
    /\ Call(w, "get_attendance_records", None, "ss_records")
    /\ UNCHANGED <<threads, served, route, ident, data, loc, rets, resp, store>>

get_system_stats_records(w) ==
    /\ pc[w] = "ss_records"
    /\ \E out \in ListOutcomes :
        /\ Ret(w, out)
        /\ IF out.raised
           THEN /\ Respond(w, 500,
                           ErrBody(ExcText("get_attendance_records")))
                /\ UNCHANGED <<calls, loc>>
           ELSE /\ Bind(w, "today_records" :> out.val)
                /\ Call(w, "get_all_users", None, "ss_users")
                /\ UNCHANGED resp
    /\ UNCHANGED <<threads, served, route, ident, data, store>>

get_system_stats_users(w) ==
    /\ pc[w] = "ss_users"
    /\ \E out \in UsersOutcomes :
        /\ Ret(w, out)
        /\ IF out.raised
           THEN Respond(w, 500, ErrBody(ExcText("get_all_users")))
           ELSE LET total_users == Cardinality(out.val)
                    present_today == Cardinality(
                        {r \in loc[w]["today_records"] :
                            Get(r, "status", None) = "present"})
                IN Respond(w, 200,
                       [success |-> TRUE,
                        stats |-> [total_users |-> total_users,
                                   present_today |-> present_today,
                                   attendance_rate |->
                                       AttendanceRate(present_today,
                                                      total_users),
                                   system_status |-> "online",
                                   last_updated |-> "now"]])
    /\ UNCHANGED <<threads, served, route, ident, data, loc, calls, store>>

\* ---------------------------------------------------------- specification
Next ==
    \E w \in AllWorkers :
        \/ Receive(w)
        \/ Finish(w)
        \/ home(w)
        \/ health_check(w)
        \/ token_required(w)
        \/ token_required_verify(w)
        \/ admin_required(w)
        \/ admin_required_verify(w)
        \/ admin_required_lookup(w)
        \/ upload_face(w)
        \/ upload_face_validate(w)
        \/ upload_face_encode(w)
        \/ upload_face_save(w)
        \/ upload_face_upload(w)
        \/ compare_faces(w)
        \/ compare_faces_reference(w)
        \/ compare_faces_encode(w)
        \/ compare_faces_compare(w)
        \/ compare_faces_save(w)
        \/ mark_attendance(w)
        \/ mark_attendance_mark(w)
        \/ get_attendance_records(w)
        \/ get_attendance_records_records(w)
        \/ get_users(w)
        \/ get_users_users(w)
        \/ get_system_stats(w)
        \/ get_system_stats_records(w)
        \/ get_system_stats_users(w)

Spec == Init /\ [][Next]_vars

TypeOK ==
    /\ threads \subseteq AllWorkers
    /\ served \in 0..MaxServed
    /\ \A w \in AllWorkers : Len(rets[w]) <= Len(calls[w])
    /\ \A u \in Users : refEnc[u] \in Encodings \cup {None}

\* ================================================================ claims
Protected == TokenRoutes \cup AdminRoutes
\* the calls a view body makes: the face service and the store
ViewCalls ==
    {"validate_face_quality", "encode_face_from_base64", "compare_faces",
     "save_face_encoding", "upload_image", "get_face_encoding",
     "mark_attendance", "get_attendance_records", "get_all_users"}
\* how often the request of worker w has called fn
Count(w, fn) == Cardinality({i \in DOMAIN calls[w] : calls[w][i].fn = fn})
\* the request of worker w has called fn
Called(w, fn) == Count(w, fn) > 0
\* the token of worker w's request has come back from the verifier
Verified(w) ==
    /\ Len(rets[w]) >= 1
    /\ calls[w][1].fn = "verify_token"
\* ... and failed verification: verify_token raised or gave a falsy value
VerifyFailed(w) ==
    /\ Verified(w)
    /\ (rets[w][1].raised \/ rets[w][1].val = <<>>)
\* the view body of worker w's request has not run
ViewNotEntered(w) ==
    /\ data[w] = NoBody
    /\ \A i \in DOMAIN calls[w] : calls[w][i].fn \notin ViewCalls

\* C1: on every protected route a token that fails external verification
\* (verify_token returns a falsy value or raises) is answered 401 and the
\* view body is never entered: after the verifier no call is made, no body
\* is read.
C1_FailedTokenIs401 ==
    \A w \in AllWorkers :
        VerifyFailed(w) =>
            /\ route[w] \in Protected
            /\ pc[w] = "done"
            /\ resp[w].status = 401
            /\ resp[w].body.success = FALSE
            /\ Len(calls[w]) = 1
            /\ ViewNotEntered(w)
C1_Witness ==
    \E w \in AllWorkers :
        /\ VerifyFailed(w)
        /\ rets[w][1].raised
        /\ route[w] = "mark_attendance"
        /\ resp[w].status = 401

\* the role lookup of worker w's request has come back
LookedUp(w) ==
    /\ Len(rets[w]) >= 2
    /\ calls[w][2].fn = "get_user_data"
    /\ ~rets[w][2].raised
\* ... with no user record, or with one whose role is not "admin"
LookedUpNonAdmin(w) ==
    /\ LookedUp(w)
    /\ \/ rets[w][2].val = <<>>
       \/ "role" \notin DOMAIN rets[w][2].val[1]
       \/ rets[w][2].val[1]["role"] # "admin"

\* C2: on every admin-only route a request whose token verifies but whose
\* user record is missing or has a role other than "admin" is answered 403
\* (never 401, never 200) and the view body is never entered.
C2_NonAdminIs403 ==
    \A w \in AllWorkers :
        LookedUpNonAdmin(w) =>
            /\ route[w] \in AdminRoutes
            /\ pc[w] = "done"
            /\ resp[w].status = 403
            /\ Len(calls[w]) = 2
            /\ ViewNotEntered(w)
C2_Witness ==
    \E w \in AllWorkers :
        /\ LookedUpNonAdmin(w)
        /\ rets[w][2].val = <<>>
        /\ route[w] = "get_users"
        /\ resp[w].status = 403

\* the mark_attendance view of worker w has read a JSON body
Marking(w) ==
    /\ route[w] = "mark_attendance"
    /\ pc[w] \in {"ma_mark", "done"}
    /\ data[w].json
\* the confidence of that body (0 when the field is absent)
MarkConfidence(w) == Get(data[w].data, "confidence", 0)
\* the last call of worker w's request returned True
LastReturnedTrue(w) ==
    /\ Len(rets[w]) = Len(calls[w])
    /\ ~rets[w][Len(rets[w])].raised
    /\ rets[w][Len(rets[w])].val = TRUE

\* C3: mark_attendance issues the storage write iff confidence >= 60, and
\* the record is stored when the store accepts the write; below 60 the
\* request ends 400 without a storage call and the response echoes the
\* confidence.  Hence every stored attendance record has confidence >= 60.
C3_PersistIffThreshold ==
    /\ \A r \in attendance : r.confidence >= 60
    /\ \A w \in AllWorkers :
        Marking(w) =>
            /\ Called(w, "mark_attendance") <=> MarkConfidence(w) >= 60
            /\ MarkConfidence(w) < 60 =>
                /\ pc[w] = "done"
                /\ resp[w].status = 400
                /\ resp[w].body.confidence = MarkConfidence(w)
                /\ Len(calls[w]) = 1
            /\ (pc[w] = "done" /\ MarkConfidence(w) >= 60
                    /\ LastReturnedTrue(w)) =>
                /\ resp[w].status = 200
                /\ \E r \in attendance :
                    /\ r.confidence = MarkConfidence(w)
                    /\ r.user_id = loc[w]["user_id"]
C3_Witness ==
    /\ \E w \in AllWorkers :
        /\ Marking(w)
        /\ pc[w] = "done"
        /\ MarkConfidence(w) = 59
        /\ resp[w].status = 400
    /\ \E r \in attendance : r.confidence = 60

\* the compare_faces view of worker w has read a JSON body
Comparing(w) ==
    /\ route[w] = "compare_faces"
    /\ data[w].json
\* the subject of that request, and its captured image
CompareSubject(w) == Get(data[w].data, "user_id", ident[w]["user_id"])
CapturedImage(w) == Get(data[w].data, "captured_image", None)
\* the subject of worker w's compare_faces request has no reference stored
ComparingUnenrolled(w) ==
    /\ Comparing(w)
    /\ refEnc[CompareSubject(w)] = None

\* C4 as stated: an authenticated compare_faces request for a subject with
\* no stored reference encoding is answered 404, for every request body,
\* and neither compares nor encodes.
C4_Original ==
    \A w \in AllWorkers :
        (ComparingUnenrolled(w) /\ pc[w] = "done") =>
            /\ resp[w].status = 404
            /\ ~Called(w, "compare_faces")
            /\ ~Called(w, "encode_face_from_base64")

\* C4 as amended: for a subject with no stored reference encoding,
\* compare_faces never compares nor encodes, whatever the body; it answers
\* 404 when the body carries a captured image and the reference lookup
\* returns, 400 without a lookup when the captured image is missing, and
\* 500 when the lookup raises.
C4_NoReferenceNoComparison ==
    \A w \in AllWorkers :
        ComparingUnenrolled(w) =>
            /\ ~Called(w, "compare_faces")
            /\ ~Called(w, "encode_face_from_base64")
            /\ pc[w] = "done" =>
                IF CapturedImage(w) \in {None, ""}
                THEN resp[w].status = 400 /\ Len(calls[w]) = 1
                ELSE /\ calls[w][2].fn = "get_face_encoding"
                     /\ calls[w][2].uid = CompareSubject(w)
                     /\ Len(calls[w]) = 2
                     /\ resp[w].status =
                            IF rets[w][2].raised THEN 500 ELSE 404
C4_Witness ==
    \E w \in AllWorkers :
        /\ ComparingUnenrolled(w)
        /\ pc[w] = "done"
        /\ CapturedImage(w) = "imgA"
        /\ CompareSubject(w) # ident[w]["user_id"]
        /\ ~rets[w][2].raised
        /\ resp[w].status = 404

\* C5: on every protected route an exception raised by an external
\* collaborator is answered 500; in particular a failure of the user store
\* during the admin role lookup is a 500 (Dependency), not a 401.  Stated
\* for the collaborators called once the token has been verified (role
\* lookup, face service, storage); an exception of the verifier itself is
\* the failed verification of C1.
C5_CollaboratorFailureIs500 ==
    \A w \in AllWorkers :
        (/\ pc[w] = "done"
         /\ route[w] \in Protected
         /\ \E i \in DOMAIN rets[w] :
                rets[w][i].raised /\ calls[w][i].fn # "verify_token")
            => resp[w].status = 500

\* the upload_face request of worker w has stored its encoding and has got
\* the answer of the image upload
EncodingSaved(w) ==
    /\ route[w] = "upload_face"
    /\ Len(rets[w]) = 5
    /\ calls[w][4].fn = "save_face_encoding"
    /\ ~rets[w][4].raised
    /\ rets[w][4].val = TRUE
\* ... and the image upload failed: it raised, or returned no address
ImageLost(w) ==
    /\ EncodingSaved(w)
    /\ calls[w][5].fn = "upload_image"
    /\ (rets[w][5].raised \/ rets[w][5].val = None)
\* a response that reports plain overall success
PlainSuccess(r) ==
    /\ r.status = 200
    /\ r.body.success = TRUE
\* a response that says the encoding was saved
SaysEncodingSaved(r) ==
    /\ "encoding_saved" \in DOMAIN r.body
    /\ r.body.encoding_saved = TRUE

\* C6: in upload_face, when the encoding has been persisted and the image
\* upload then fails (returns no address or raises), the response does not
\* report plain overall success but reports partial success explicitly:
\* encoding saved, image not saved.
C6_PartialSuccessReported ==
    \A w \in AllWorkers :
        (ImageLost(w) /\ pc[w] = "done") =>
            /\ ~PlainSuccess(resp[w])
            /\ SaysEncodingSaved(resp[w])

\* the compare_faces request of worker w has computed its comparison
Compared(w) ==
    /\ route[w] = "compare_faces"
    /\ "comparison_result" \in DOMAIN loc[w]

\* C7: in compare_faces a failure of the audit write of the captured
\* encoding does not block the result: once the comparison is computed the
\* response carries the comparison result, also when save_face_encoding
\* fails.
C7_AuditFailureKeepsResult ==
    \A w \in AllWorkers :
        (Compared(w) /\ pc[w] = "done") =>
            resp[w].body = loc[w]["comparison_result"]

\* call i of worker w's request is a quality validation that came back ...
ValidatedAt(w, i) ==
    /\ i \in DOMAIN rets[w]
    /\ calls[w][i].fn = "validate_face_quality"
    /\ ~rets[w][i].raised
\* ... saying the image is fine / is not
ValidatedOk(w, i) == ValidatedAt(w, i) /\ rets[w][i].val[1] = TRUE
ValidatedBad(w, i) == ValidatedAt(w, i) /\ rets[w][i].val[1] = FALSE
\* every encoding call of worker w's request follows a quality validation
\* that passed
EncodesAfterValidation(w) ==
    \A i \in DOMAIN calls[w] :
        calls[w][i].fn = "encode_face_from_base64" =>
            \E j \in 1..(i - 1) : ValidatedOk(w, j)
\* a request whose quality validation failed ends without encoding
RejectsUnencoded(w) ==
    \A j \in DOMAIN rets[w] :
        ValidatedBad(w, j) =>
            /\ pc[w] = "done"
            /\ resp[w].status = 400
            /\ ~Called(w, "encode_face_from_base64")
            /\ ~Called(w, "save_face_encoding")

\* C8 as stated: in upload_face and in compare_faces the quality validation
\* runs before the encoding call, and a failed validation rejects the
\* request without any encoding attempt.
C8_Original ==
    \A w \in AllWorkers :
        route[w] \in {"upload_face", "compare_faces"} =>
            /\ EncodesAfterValidation(w)
            /\ RejectsUnencoded(w)

\* C8 as amended: in upload_face the quality validation runs before the
\* encoding call, and a failed validation rejects the request (400) without
\* any encoding attempt, the error being the fixed prefix
\* 'Face quality check failed: ' followed by the validator's reason
\* unaltered; compare_faces encodes without any quality validation.
C8_UploadValidatesFirst ==
    \A w \in AllWorkers :
        /\ route[w] = "upload_face" =>
            /\ EncodesAfterValidation(w)
            /\ RejectsUnencoded(w)
            /\ \A j \in DOMAIN rets[w] :
                ValidatedBad(w, j) =>
                    resp[w].body.error =
                        <<"Face quality check failed: ", rets[w][j].val[2]>>
        /\ route[w] = "compare_faces" =>
            ~Called(w, "validate_face_quality")
C8_Witness ==
    /\ \E w \in AllWorkers :
        /\ route[w] = "upload_face"
        /\ ValidatedBad(w, 2)
        /\ resp[w].status = 400
        /\ resp[w].body.error =
               <<"Face quality check failed: ", "Image too blurry">>
        /\ ~Called(w, "encode_face_from_base64")

\* C9: a mark_attendance request with confidence >= 60 attempts the storage
\* write exactly once, also when the write reports failure or raises.
C9_WriteOnce ==
    \A w \in AllWorkers :
        /\ Count(w, "mark_attendance") <= 1
        /\ (Marking(w) /\ MarkConfidence(w) >= 60) =>
                Count(w, "mark_attendance") = 1
C9_Witness ==
    \E w \in AllWorkers :
        /\ Marking(w)
        /\ pc[w] = "done"
        /\ MarkConfidence(w) >= 60
        /\ rets[w][2].raised
        /\ Count(w, "mark_attendance") = 1
        /\ resp[w].status = 500

\* the decorator of worker w has read the request headers
HeadersRead(w) == "headers" \in DOMAIN loc[w]
\* a missing or malformed bearer token: no Authorization header, a header
\* that does not start with 'Bearer ', or nothing after that prefix
MissingOrMalformed(h) ==
    \/ ~h.hasAuth
    \/ Len(h.auth) < 2
    \/ h.auth[1] # "Bearer"
    \/ h.auth[2] # " "
    \/ Len(h.auth) = 2

\* C10: on every protected route a request with a missing or malformed
\* bearer token is answered 401 before any external call: neither
\* verify_token nor the role lookup is invoked.
C10_MalformedIs401 ==
    \A w \in AllWorkers :
        (HeadersRead(w) /\ MissingOrMalformed(loc[w]["headers"])) =>
            /\ route[w] \in Protected
            /\ pc[w] = "done"
            /\ resp[w].status = 401
            /\ calls[w] = <<>>
C10_Witness ==
    \E w \in AllWorkers :
        /\ HeadersRead(w)
        /\ loc[w]["headers"].hasAuth
        /\ loc[w]["headers"].auth = <<"Bearer", " ">>
        /\ route[w] = "get_system_stats"
        /\ resp[w].status = 401
        /\ calls[w] = <<>>

\* the three routes that act on a subject
SubjectRoutes == {"upload_face", "compare_faces", "mark_attendance"}
\* the storage operations that take a subject
StorageCalls ==
    {"save_face_encoding", "upload_image", "get_face_encoding",
     "mark_attendance"}
\* the subject id of the verified token of worker w's request
TokenSubject(w) == rets[w][1].val[1]["uid"]
\* the view of a subject route has read a JSON body
SubjectRequest(w) ==
    /\ route[w] \in SubjectRoutes
    /\ data[w].json
\* the subject that request names: the body's user_id when the field is
\* present, the token's subject otherwise
RequestedSubject(w) ==
    IF "user_id" \in DOMAIN data[w].data
    THEN data[w].data["user_id"]
    ELSE TokenSubject(w)
\* the reference tag worker w's upload asks for: false when omitted
RequestedTag(w) ==
    IF "is_reference" \in DOMAIN data[w].data
    THEN data[w].data["is_reference"]
    ELSE FALSE
\* the store has accepted the write that is call number i of the request
Accepted(w, i) ==
    /\ Len(rets[w]) >= i
    /\ ~rets[w][i].raised
    /\ rets[w][i].val = TRUE
\* the storage operations that write
WriteCalls == {"save_face_encoding", "upload_image", "mark_attendance"}
\* the write that worker w's request is waiting for
PendingWrite(w) ==
    /\ Len(calls[w]) = Len(rets[w]) + 1
    /\ calls[w][Len(calls[w])].fn \in WriteCalls
\* a step in which the pending call of worker w's request returns
Returns(w) == Len(rets'[w]) = Len(rets[w]) + 1
\* a step in which the store accepts the encoding of worker w's upload
SaveAccepted(w) ==
    /\ route[w] = "upload_face"
    /\ pc[w] = "uf_save"
    /\ Accepted(w, 4)'
\* the encoding worker w's upload or comparison has computed
Encoded(w) == rets[w][3].val[1]

\* every storage call of a subject route names the requested subject
C11_CallsForSubject ==
    \A w \in AllWorkers :
        SubjectRequest(w) =>
            /\ \A i \in DOMAIN calls[w] :
                calls[w][i].fn \in StorageCalls =>
                    calls[w][i].uid = RequestedSubject(w)
            /\ (route[w] = "mark_attendance" /\ Accepted(w, 2)) =>
                \E r \in attendance : r.user_id = RequestedSubject(w)
            /\ (route[w] = "upload_face" /\ Accepted(w, 4)
                    /\ ~RequestedTag(w)) =>
                <<RequestedSubject(w), Encoded(w)>> \in captured
            /\ (route[w] = "compare_faces" /\ Accepted(w, 5)) =>
                <<RequestedSubject(w), Encoded(w)>> \in captured
\* the write of a subject route changes what is stored for the requested
\* subject and for no other subject
C11_StoredUnderSubject ==
    \A w \in AllWorkers :
        (SubjectRequest(w) /\ PendingWrite(w) /\ Returns(w)) =>
            /\ \A u \in Users \ {RequestedSubject(w)} : refEnc'[u] = refEnc[u]
            /\ \A c \in captured' \ captured : c[1] = RequestedSubject(w)
            /\ \A r \in attendance' \ attendance :
                r.user_id = RequestedSubject(w)
            /\ (SaveAccepted(w) /\ RequestedTag(w)) =>
                refEnc'[RequestedSubject(w)] = Encoded(w)

\* C11: in upload_face, compare_faces and mark_attendance every storage
\* operation (save_face_encoding, upload_image, get_face_encoding,
\* mark_attendance) is issued for the body's user_id when that field is
\* present and for the verified token's subject otherwise, and the record
\* or encoding the store accepts is stored under that subject and changes
\* nothing that is stored for another subject.
C11_SubjectIsBodyOrToken ==
    []C11_CallsForSubject /\ [][C11_StoredUnderSubject]_vars
C11_Witness ==
    \E w \in AllWorkers :
        /\ SubjectRequest(w)
        /\ route[w] = "upload_face"
        /\ "user_id" \notin DOMAIN data[w].data
        /\ TokenSubject(w) = "u2"
        /\ Len(calls[w]) = 5
        /\ calls[w][4].uid = "u2"
        /\ calls[w][5].uid = "u2"
        /\ \E r \in attendance : r.user_id = "u1"

\* the decorator of worker w's request has let the request through: the
\* view body is running or has answered
ViewEntered(w) ==
    /\ route[w] \in Protected
    /\ \/ pc[w] \notin {"idle", "done", "token_required", "tr_verify",
                        "admin_required", "ar_verify", "ar_lookup"}
       \/ pc[w] = "done" /\ ~ViewNotEntered(w)
\* the identity that the token of worker w's own request resolves to
OwnIdentity(w) ==
    ("user_id" :> TokenSubject(w))
        @@ ("user_email" :> rets[w][1].val[1]["email"])

\* C12: under every interleaving of concurrent requests the identity a
\* handler observes is the one resolved from the token of that same
\* request: a thread that serves no request holds no identity, an identity
\* that is set carries the subject of the request's own token, a view runs
\* with exactly its own identity, and mark_attendance without a user_id
\* writes for the subject of its own token.
C12_IdentityIsRequestScoped ==
    \A w \in AllWorkers :
        /\ pc[w] = "idle" => ident[w] = <<>>
        /\ ident[w] # <<>> =>
            /\ Verified(w)
            /\ ~VerifyFailed(w)
            /\ ident[w]["user_id"] = TokenSubject(w)
        /\ ViewEntered(w) => ident[w] = OwnIdentity(w)
        /\ (route[w] = "mark_attendance" /\ data[w].json
                /\ "user_id" \notin DOMAIN data[w].data) =>
            /\ loc[w]["user_id"] = TokenSubject(w)
            /\ \A i \in DOMAIN calls[w] :
                calls[w][i].fn = "mark_attendance" =>
                    calls[w][i].uid = TokenSubject(w)
C12_Witness ==
    \E a, b \in AllWorkers :
        /\ ViewEntered(a)
        /\ ViewEntered(b)
        /\ pc[a] = "ma_mark"
        /\ pc[b] = "ma_mark"
        /\ "user_id" \notin DOMAIN data[a].data
        /\ "user_id" \notin DOMAIN data[b].data
        /\ ident[a]["user_id"] = "u1"
        /\ ident[b]["user_id"] = "u2"
        /\ calls[a][2].uid = "u1"
        /\ calls[b][2].uid = "u2"

\* worker w's request is an upload whose encoding the store has accepted
UploadAccepted(w) ==
    /\ route[w] = "upload_face"
    /\ data[w].json
    /\ Accepted(w, 4)
\* the reference lookup of worker w's compare_faces has returned
ReferenceRead(w) ==
    /\ Comparing(w)
    /\ Len(rets[w]) >= 2
    /\ ~rets[w][2].raised
\* a subject holds at most one reference encoding, and a reference that
\* a comparison has read is still held
C13_OneReference ==
    /\ refEnc \in [Users -> Encodings \cup {None}]
    /\ \A w \in AllWorkers :
        (ReferenceRead(w) /\ rets[w][2].val # None) =>
            refEnc[RequestedSubject(w)] # None
\* the step that accepts a reference upload makes its encoding the
\* subject's reference, and the step in which compare_faces reads the
\* reference reads the one the store holds at that moment
C13_ReadsLatest ==
    \A w \in AllWorkers :
        /\ (SaveAccepted(w) /\ RequestedTag(w)) =>
            refEnc'[RequestedSubject(w)] = Encoded(w)
        /\ (Comparing(w) /\ pc[w] = "cf_reference" /\ Returns(w)
                /\ ~rets'[w][2].raised) =>
            rets'[w][2].val = refEnc[RequestedSubject(w)]
\* a step changes the reference of a subject only by accepting a reference
\* upload for that subject, whose encoding becomes the reference
C13_OnlyReferenceUploads ==
    \A u \in Users :
        refEnc'[u] # refEnc[u] =>
            \E w \in AllWorkers :
                /\ SaveAccepted(w)
                /\ RequestedTag(w)
                /\ RequestedSubject(w) = u
                /\ refEnc'[u] = Encoded(w)

\* C13: a subject holds one reference encoding; the store's acceptance of
\* a reference upload makes the uploaded encoding the subject's reference,
\* compare_faces reads the reference the store holds when it asks, and no
\* step other than an accepted reference upload for that subject changes
\* it (non-reference uploads and compare_faces leave it as it is): the
\* next compare_faces reads the encoding of the reference upload the store
\* accepted last.
C13_ReferenceIsLatestUpload ==
    /\ []C13_OneReference
    /\ [][C13_ReadsLatest /\ C13_OnlyReferenceUploads]_vars
C13_Witness ==
    \E w \in AllWorkers :
        /\ ReferenceRead(w)
        /\ "user_id" \in DOMAIN data[w].data
        /\ RequestedSubject(w) # TokenSubject(w)
        /\ rets[w][2].val = "e1"
        /\ Accepted(w, 5)
        /\ rets[w][3].val[1] = "e2"
        /\ refEnc[RequestedSubject(w)] = "e1"
        /\ <<RequestedSubject(w), "e2">> \in captured

\* the request of worker w has been answered
Answered(w) == pc[w] = "done"

\* C14: every response of every route is a JSON object that carries a
\* boolean `success` field, the successful compare_faces response and the
\* responses of `/` and `/health` included.
C14_EveryResponseHasSuccess ==
    \A w \in AllWorkers :
        Answered(w) =>
            /\ "success" \in DOMAIN resp[w].body
            /\ resp[w].body["success"] \in BOOLEAN

\* the required body fields of the routes that take a body
Required ==
    ("upload_face" :> {"image_data"})
        @@ ("compare_faces" :> {"captured_image"})
        @@ ("mark_attendance" :> {"confidence", "timestamp"})
\* a date filter that is given and is not an ISO-8601 date
Malformed(args, k) == k \in DOMAIN args /\ args[k] = "yesterday"
\* the view of worker w has been given invalid input: no JSON body or a
\* body without a required field on a subject route, a malformed date
\* filter on attendance_records
InvalidInput(w) ==
    \/ /\ route[w] \in SubjectRoutes
       /\ "user_email" \in DOMAIN ident[w]
       /\ \/ ~data[w].json
          \/ \E k \in Required[route[w]] : k \notin DOMAIN data[w].data
    \/ /\ route[w] = "get_attendance_records"
       /\ "user_email" \in DOMAIN ident[w]
       /\ data[w].json
       /\ \/ Malformed(data[w].data, "start_date")
          \/ Malformed(data[w].data, "end_date")

\* C15: every request with invalid input (a missing required body field,
\* an absent JSON body, a malformed start_date or end_date) is answered 400
\* and makes no storage write.
C15_InvalidInputIs400 ==
    \A w \in AllWorkers :
        (Answered(w) /\ InvalidInput(w)) =>
            /\ resp[w].status = 400
            /\ \A i \in DOMAIN calls[w] : calls[w][i].fn \notin WriteCalls

\* worker w's system_stats request has both of its lists
StatsComputed(w) ==
    /\ route[w] = "get_system_stats"
    /\ Len(rets[w]) = 4
    /\ ~rets[w][3].raised
    /\ ~rets[w][4].raised
\* the counts the lists give: the users listed, and the records of today
\* whose status is 'present'
TotalUsers(w) == Cardinality(rets[w][4].val)
PresentToday(w) ==
    Cardinality({r \in rets[w][3].val : r.status = "present"})
\* the rate the response reports, in hundredths of a percent
ReportedRate(w) == resp[w].body.stats.attendance_rate

\* C16 as stated: system_stats answers 200 with attendance_rate = 0 when
\* total_users = 0, for every present_today, and with exactly
\* present_today / total_users * 100 when total_users > 0.
C16_Original ==
    \A w \in AllWorkers :
        StatsComputed(w) =>
            /\ Answered(w)
            /\ resp[w].status = 200
            /\ TotalUsers(w) = 0 => ReportedRate(w) = 0
            /\ TotalUsers(w) > 0 =>
                ReportedRate(w) * TotalUsers(w) = PresentToday(w) * 10000

\* C16 as amended: system_stats answers 200 with attendance_rate = 0 when
\* total_users = 0, for every present_today, and with
\* present_today / total_users * 100 rounded to two decimals (the nearest
\* hundredth) when total_users > 0; the response carries both counts.
C16_RateIsGuardedAndRounded ==
    \A w \in AllWorkers :
        StatsComputed(w) =>
            /\ Answered(w)
            /\ resp[w].status = 200
            /\ resp[w].body.stats.total_users = TotalUsers(w)
            /\ resp[w].body.stats.present_today = PresentToday(w)
            /\ TotalUsers(w) = 0 => ReportedRate(w) = 0
            /\ TotalUsers(w) > 0 =>
                LET d == ReportedRate(w) * TotalUsers(w)
                            - PresentToday(w) * 10000
                IN  /\ 2 * d <= TotalUsers(w)
                    /\ 2 * d >= 0 - TotalUsers(w)
C16_Witness ==
    \E w \in AllWorkers :
        /\ StatsComputed(w)
        /\ TotalUsers(w) = 0
        /\ PresentToday(w) = 1
        /\ resp[w].status = 200
        /\ ReportedRate(w) = 0

\* the calls of an upload, in order
UploadOrder ==
    <<"verify_token", "validate_face_quality", "encode_face_from_base64",
      "save_face_encoding", "upload_image">>
\* call i of worker w's request has returned an encoding
EncodedAt(w, i) ==
    /\ Len(rets[w]) >= i
    /\ ~rets[w][i].raised
    /\ rets[w][i].val[1] \in Encodings

\* the calls of an upload are made in order, each after the one before it
\* succeeded
C17_CallsInOrder ==
    \A w \in AllWorkers :
        route[w] = "upload_face" =>
            /\ \A i \in DOMAIN calls[w] :
                i <= 5 /\ calls[w][i].fn = UploadOrder[i]
            /\ Len(calls[w]) >= 4 =>
                /\ ValidatedOk(w, 2)
                /\ EncodedAt(w, 3)
            /\ Len(calls[w]) >= 5 => Accepted(w, 4)
            /\ (Len(rets[w]) >= 4 /\ ~Accepted(w, 4)) =>
                /\ Answered(w)
                /\ resp[w].status = 500
                /\ Len(calls[w]) = 4
            /\ (Accepted(w, 4) /\ ~RequestedTag(w)) =>
                <<RequestedSubject(w), Encoded(w)>> \in captured
\* the step that accepts the encoding stores it under the requested tag
C17_StoredUnderTag ==
    \A w \in AllWorkers :
        SaveAccepted(w) =>
            IF RequestedTag(w)
            THEN /\ refEnc' =
                        [refEnc EXCEPT ![RequestedSubject(w)] = Encoded(w)]
                 /\ captured' = captured
            ELSE /\ captured' =
                        captured \cup {<<RequestedSubject(w), Encoded(w)>>}
                 /\ refEnc' = refEnc

\* C17: upload_face calls validate, encode, save_face_encoding,
\* upload_image in that order; the encoding is saved only after validation
\* passed and encoding gave an encoding; the image upload is attempted only
\* after the store reported the encoding saved; and the accepted encoding is
\* stored under the tag the request asks for, non-reference when
\* is_reference is omitted.
C17_UploadOrder ==
    []C17_CallsInOrder /\ [][C17_StoredUnderTag]_vars
C17_Witness ==
    \E w \in AllWorkers :
        /\ route[w] = "upload_face"
        /\ "is_reference" \notin DOMAIN data[w].data
        /\ Len(rets[w]) = 5
        /\ Accepted(w, 4)
        /\ rets[w][3].val[1] = "e2"
        /\ <<RequestedSubject(w), "e2">> \in captured
        /\ refEnc[RequestedSubject(w)] = "e1"
        /\ resp[w].status = 200

\* the calls of a comparison, in order
CompareOrder ==
    <<"verify_token", "get_face_encoding", "encode_face_from_base64",
      "compare_faces", "save_face_encoding">>
\* the comparison of worker w's request has been computed
ComparisonComputed(w) ==
    /\ route[w] = "compare_faces"
    /\ Len(rets[w]) >= 4
    /\ ~rets[w][4].raised

\* the audit write is the last call of a comparison and is made exactly
\* when the comparison has been computed
C18_SaveAfterCompare ==
    \A w \in AllWorkers :
        route[w] = "compare_faces" =>
            /\ \A i \in DOMAIN calls[w] :
                i <= 5 /\ calls[w][i].fn = CompareOrder[i]
            /\ ComparisonComputed(w) <=> Len(calls[w]) = 5
            /\ ~ComparisonComputed(w) =>
                \A i \in DOMAIN calls[w] : calls[w][i].fn \notin WriteCalls
            /\ Accepted(w, 5) =>
                <<RequestedSubject(w), Encoded(w)>> \in captured
\* a step of a comparison changes the store only by the accepted audit
\* write, which adds the captured encoding as a non-reference encoding
C18_OnlyAuditWrite ==
    \A w \in AllWorkers :
        (route[w] = "compare_faces" /\ Returns(w)) =>
            /\ refEnc' = refEnc
            /\ attendance' = attendance
            /\ captured' =
                IF pc[w] = "cf_save" /\ Accepted(w, 5)'
                THEN captured \cup {<<RequestedSubject(w), Encoded(w)>>}
                ELSE captured

\* C18: compare_faces saves the captured encoding, as a non-reference
\* encoding of the subject, only after the comparison is computed, and does
\* so whether the faces match or not; a request that ends before the
\* comparison makes no storage write.
C18_AuditAfterComparison ==
    []C18_SaveAfterCompare /\ [][C18_OnlyAuditWrite]_vars
C18_Witness ==
    \E w \in AllWorkers :
        /\ ComparisonComputed(w)
        /\ rets[w][4].val.is_match = FALSE
        /\ Accepted(w, 5)
        /\ rets[w][2].val = "e1"
        /\ rets[w][3].val[1] = "e2"
        /\ <<RequestedSubject(w), "e2">> \in captured
        /\ Answered(w)

\* worker w's request names, in its body, a subject other than its caller
ActsForAnother(w) ==
    /\ route[w] \in {"mark_attendance", "upload_face"}
    /\ data[w].json
    /\ "user_id" \in DOMAIN data[w].data
    /\ data[w].data["user_id"] # TokenSubject(w)

\* no role check on the any-authenticated routes, and a record written
\* for another subject stays stored for that subject
C19_NoRoleCheck ==
    \A w \in AllWorkers :
        /\ route[w] \in TokenRoutes =>
            /\ ~Called(w, "get_user_data")
            /\ resp[w].status # 403
        /\ (ActsForAnother(w) /\ route[w] = "mark_attendance"
                /\ Accepted(w, 2)) =>
            /\ resp[w].status = 200
            /\ AttendanceRecord(data[w].data["user_id"], MarkConfidence(w),
                                Get(data[w].data, "timestamp", None))
                    \in attendance
        /\ (ActsForAnother(w) /\ route[w] = "upload_face"
                /\ Accepted(w, 4) /\ ~RequestedTag(w)) =>
            <<data[w].data["user_id"], Encoded(w)>> \in captured
\* the step that accepts the upload of a caller who names another subject
\* writes the encoding for that subject
C19_WrittenForOther ==
    \A w \in AllWorkers :
        (ActsForAnother(w) /\ SaveAccepted(w)) =>
            IF RequestedTag(w)
            THEN refEnc'[data[w].data["user_id"]] = Encoded(w)
            ELSE <<data[w].data["user_id"], Encoded(w)>> \in captured'

\* C19: the any-authenticated routes make no role check: they never look
\* up the caller's role and never answer 403, and a caller Y who sends
\* mark_attendance or upload_face with the user_id of another subject X
\* gets the attendance record, or the (reference) encoding, written for X.
C19_AnyCallerWritesForAnySubject ==
    []C19_NoRoleCheck /\ [][C19_WrittenForOther]_vars
C19_Witness ==
    \E w \in AllWorkers :
        /\ ActsForAnother(w)
        /\ route[w] = "mark_attendance"
        /\ TokenSubject(w) = "u1"
        /\ data[w].data["user_id"] = "u2"
        /\ Accepted(w, 2)
        /\ resp[w].status = 200
        /\ \E r \in attendance : r.user_id = "u2"
        /\ \A r \in attendance : r.user_id # "u1"
        /\ refEnc["u2"] = "e1"

\* the statuses of a rejected request
Rejections == {400, 401, 403, 404}
\* worker w's request is one that must leave the store as it is: a request
\* on an admin read route, or a request that has been rejected
ReadOnly(w) ==
    \/ route[w] \in AdminRoutes
    \/ Answered(w) /\ resp[w].status \in Rejections
\* requests that must leave the store as it is make no storage write
C20_NoWriteCalls ==
    \A w \in AllWorkers :
        ReadOnly(w) =>
            \A i \in DOMAIN calls[w] : calls[w][i].fn \notin WriteCalls
\* a step changes the stored encodings or attendance records only by the
\* store accepting the pending write of a request on a subject route, and a
\* step of a request that is then rejected changes nothing
C20_StoreChangesByWrites ==
    store' # store =>
        \E w \in AllWorkers :
            /\ route[w] \in SubjectRoutes
            /\ PendingWrite(w)
            /\ Len(rets'[w]) = Len(calls[w])
            /\ ~rets'[w][Len(calls[w])].raised
            /\ rets'[w][Len(calls[w])].val = TRUE
            /\ resp'[w].status \notin Rejections

\* C20: the admin read routes and every rejected request (401, 403, 400,
\* 404 on any route) leave the stored encodings and attendance records as
\* they are: such a request makes no storage write, and the store changes
\* only when it accepts the write of a request that is not rejected.
C20_RejectedLeavesStore ==
    []C20_NoWriteCalls /\ [][C20_StoreChangesByWrites]_vars
C20_Witness ==
    /\ attendance # {}
    /\ \E w \in AllWorkers :
        /\ route[w] = "compare_faces"
        /\ Answered(w)
        /\ resp[w].status = 404
        /\ Len(calls[w]) = 2
        /\ captured = {}
        /\ \A u \in Users : refEnc[u] = None

====
